---- MODULE Spec2Model ----
(***************************************************************************)
(* A model of jdict.JDict (src/jdict/__init__.py): an insertion-ordered    *)
(* mapping (UserDict over a dict held in `data`) with attribute access,    *)
(* three lazily cached views (_keys, _values, _items, each with a validity *)
(* flag) and first/last/positional accessors and pops.                     *)
(*                                                                         *)
(* The object is the record `jd`; every method is an operator from the     *)
(* object to the object it leaves behind and the value it returns, and     *)
(* every action is one call of a method on the object.                     *)
(***************************************************************************)
EXTENDS Integers, Sequences, FiniteSets

VARIABLES jd, ret, recomputes, held

vars == <<jd, ret, recomputes, held>>

----------------------------------------------------------------------------
(* Bounds of the model *)

\* Longest mapping a call may build: a write of a new key is made only below it.
MaxLen == 2
\* The recomputation counters saturate here.
MaxCount == 2

Keys == {"a", "b"}
Values == {1, 2}
\* Indices handed to at / key_at / value_at: below, inside and above the range.
Indices == (0 - 1)..(MaxLen + 1)

----------------------------------------------------------------------------
(* Python values *)

\* A result that may be None is a sequence: <<>> is None, <<x>> is the value x.
None == <<>>
Some(x) == <<x>>

\* JDict.protected_keys
protected_keys == {"data", "_keys", "_values", "_items",
                   "_keysvalid", "_valuesvalid", "_itemsvalid"}

(* The built-in dict, ordered by insertion: a sequence of entries with      *)
(* pairwise distinct keys.                                                  *)
Entry(k, v) == [k |-> k, v |-> v]

dict_len(d) == Len(d)

dict_contains(d, key) == \E i \in 1..Len(d) : d[i].k = key

dict_index(d, key) == CHOOSE i \in 1..Len(d) : d[i].k = key

\* d[key], for a key of d
dict_getitem(d, key) == d[dict_index(d, key)].v

\* d[key] = value: an existing key keeps its position, a new one goes last
dict_setitem(d, key, value) ==
    IF dict_contains(d, key)
    THEN [d EXCEPT ![dict_index(d, key)] = Entry(key, value)]
    ELSE Append(d, Entry(key, value))

\* del d[key], for a key of d
dict_delitem(d, key) ==
    LET n == dict_index(d, key)
    IN  [i \in 1..(Len(d) - 1) |-> IF i < n THEN d[i] ELSE d[i + 1]]

\* list(d), list(d.keys())
dict_keys(d) == [i \in 1..Len(d) |-> d[i].k]

\* list(d.values())
dict_values(d) == [i \in 1..Len(d) |-> d[i].v]

\* list(d.items()): (key, value) tuples
dict_items(d) == [i \in 1..Len(d) |-> <<d[i].k, d[i].v>>]

\* The dicts over the keys ks of at most n entries
RECURSIVE DictsOfLen(_, _)
DictsOfLen(ks, n) ==
    IF n = 0 THEN {<<>>}
    ELSE {Append(d, Entry(k, v)) :
            d \in DictsOfLen(ks, n - 1), k \in ks, v \in Values}

Dicts(ks, n) ==
    {d \in UNION {DictsOfLen(ks, m) : m \in 0..n} :
        \A i, j \in 1..Len(d) : d[i].k = d[j].k => i = j}

----------------------------------------------------------------------------
(* The methods of JDict.  A call returns the object it leaves behind, how   *)
(* it ended ("ok" or the exception raised), the value returned, and what   *)
(* it did to the caches on the way, in order: the views it recomputed from  *)
(* the mapping ("keys", "values", "items") and the calls of _invalidate     *)
(* ("invalidate").                                                          *)

Result(self, status, val, work) ==
    [self |-> self, status |-> status, val |-> val, work |-> work]

\* _first that keeps the element the loop reaches last
_first_exhausting(obj) == IF Len(obj) = 0 THEN None ELSE Some(obj[Len(obj)])

\* JDict._first: the first element of the iteration, None when there is none
_first(obj) == IF Len(obj) = 0 THEN None ELSE Some(obj[1])

\* JDict._last: obj[-1], None on IndexError
_last(obj) == IF Len(obj) = 0 THEN None ELSE Some(obj[Len(obj)])

\* JDict._cleanse
_cleanse(self) == [self EXCEPT !._keys = <<>>, !._values = <<>>, !._items = <<>>]

\* JDict._invalidate
_invalidate(self) ==
    [self EXCEPT !._keysvalid = FALSE, !._valuesvalid = FALSE, !._itemsvalid = FALSE]

\* _key_is_protected with one name missing from protected_keys
_key_is_protected_short(key) == key \in protected_keys \ {"_itemsvalid"}

\* JDict._key_is_protected
_key_is_protected(key) == key \in protected_keys

\* JDict.__init__: the attributes have no value before it sets them
__init__(data) ==
    _invalidate(_cleanse([data |-> data,
                          _keys |-> <<>>, _values |-> <<>>, _items |-> <<>>,
                          _keysvalid |-> TRUE, _valuesvalid |-> TRUE,
                          _itemsvalid |-> TRUE]))

\* object.__setattr__(self, key, value) for the housekeeping attributes
object_setattr(self, key, value) ==
    CASE key = "data"         -> [self EXCEPT !.data = value]
      [] key = "_keys"        -> [self EXCEPT !._keys = value]
      [] key = "_values"      -> [self EXCEPT !._values = value]
      [] key = "_items"       -> [self EXCEPT !._items = value]
      [] key = "_keysvalid"   -> [self EXCEPT !._keysvalid = value]
      [] key = "_valuesvalid" -> [self EXCEPT !._valuesvalid = value]
      [] key = "_itemsvalid"  -> [self EXCEPT !._itemsvalid = value]

\* __setattr__ without the call of _invalidate
__setattr__stale(self, key, value) ==
    IF _key_is_protected(key)
    THEN Result(object_setattr(self, key, value), "ok", None, <<>>)
    ELSE Result([self EXCEPT !.data = dict_setitem(self.data, key, value)],
                "ok", None, <<>>)

\* JDict.__setattr__
__setattr__(self, key, value) ==
    IF _key_is_protected(key)
    THEN Result(object_setattr(self, key, value), "ok", None, <<>>)
    ELSE Result(_invalidate([self EXCEPT !.data = dict_setitem(self.data, key, value)]),
                "ok", None, <<"invalidate">>)

\* UserDict.__setitem__, inherited: self.data[key] = item
__setitem__(self, key, item) ==
    Result([self EXCEPT !.data = dict_setitem(self.data, key, item)], "ok", None, <<>>)

\* UserDict.__delitem__, inherited: del self.data[key]
__delitem__(self, key) ==
    IF dict_contains(self.data, key)
    THEN Result([self EXCEPT !.data = dict_delitem(self.data, key)], "ok", None, <<>>)
    ELSE Result(self, "KeyError", None, <<>>)

\* keylist without the assignment of _keysvalid
keylist_unmarked(self) ==
    IF ~self._keysvalid
    THEN LET s == [self EXCEPT !._keys = dict_keys(self.data)]
         IN  Result(s, "ok", s._keys, <<"keys">>)
    ELSE Result(self, "ok", self._keys, <<>>)

\* JDict.keylist
keylist(self) ==
    IF ~self._keysvalid
    THEN LET s == [self EXCEPT !._keys = dict_keys(self.data), !._keysvalid = TRUE]
         IN  Result(s, "ok", s._keys, <<"keys">>)
    ELSE Result(self, "ok", self._keys, <<>>)

\* JDict.valuelist
valuelist(self) ==
    IF ~self._valuesvalid
    THEN LET s == [self EXCEPT !._values = dict_values(self.data), !._valuesvalid = TRUE]
         IN  Result(s, "ok", s._values, <<"values">>)
    ELSE Result(self, "ok", self._values, <<>>)

\* itemlist that fills the key and value caches from the items it computes
itemlist_filling(self) ==
    IF ~self._itemsvalid
    THEN LET s == [self EXCEPT !._items = dict_items(self.data), !._itemsvalid = TRUE,
                               !._keys = dict_keys(self.data), !._keysvalid = TRUE,
                               !._values = dict_values(self.data), !._valuesvalid = TRUE]
         IN  Result(s, "ok", s._items, <<"items">>)
    ELSE Result(self, "ok", self._items, <<>>)

\* JDict.itemlist
itemlist(self) ==
    IF ~self._itemsvalid
    THEN LET s == [self EXCEPT !._items = dict_items(self.data), !._itemsvalid = TRUE]
         IN  Result(s, "ok", s._items, <<"items">>)
    ELSE Result(self, "ok", self._items, <<>>)

\* JDict.firstitem
firstitem(self) == Result(self, "ok", _first(dict_items(self.data)), <<>>)

\* firstkey read from the cached key view, as lastkey is
firstkey_cached(self) ==
    LET r == keylist(self) IN Result(r.self, "ok", _first(r.val), r.work)

\* JDict.firstkey
firstkey(self) == Result(self, "ok", _first(dict_keys(self.data)), <<>>)

\* JDict.firstvalue
firstvalue(self) == Result(self, "ok", _first(dict_values(self.data)), <<>>)

\* JDict.anyitem: self.firstitem
anyitem(self) == firstitem(self)

\* JDict.anykey: self.firstkey
anykey(self) == firstkey(self)

\* JDict.anyvalue: self.firstvalue
anyvalue(self) == firstvalue(self)

\* JDict.lastitem
lastitem(self) ==
    LET r == itemlist(self) IN Result(r.self, "ok", _last(r.val), r.work)

\* JDict.lastkey
lastkey(self) ==
    LET r == keylist(self) IN Result(r.self, "ok", _last(r.val), r.work)

\* JDict.lastvalue
lastvalue(self) ==
    LET r == valuelist(self) IN Result(r.self, "ok", _last(r.val), r.work)

\* JDict.range: range(len(self))
range(self) == [i \in 1..dict_len(self.data) |-> i - 1]

\* JDict.enumitems: zip(self.range, self.data.keys(), self.data.values())
enumitems(self) ==
    LET r == range(self)
        ks == dict_keys(self.data)
        vs == dict_values(self.data)
    IN  [i \in 1..Len(r) |-> <<r[i], ks[i], vs[i]>>]

\* _at with a negative idx counted from the end, as in list indexing
_at_wrapping(self, idx, enumiterator) ==
    LET i == IF idx < 0 THEN idx + Len(enumiterator) ELSE idx
    IN  IF \E n \in 1..Len(enumiterator) : enumiterator[n][1] = i
        THEN LET n == CHOOSE m \in 1..Len(enumiterator) : enumiterator[m][1] = i
             IN  Result(self, "ok", Some(Tail(enumiterator[n])), <<>>)
        ELSE Result(self, "IndexError", None, <<>>)

\* JDict._at: the rest of the first tuple whose index is idx, else IndexError
_at(self, idx, enumiterator) ==
    IF \E n \in 1..Len(enumiterator) : enumiterator[n][1] = idx
    THEN LET n == CHOOSE m \in 1..Len(enumiterator) :
                    /\ enumiterator[m][1] = idx
                    /\ \A l \in 1..(m - 1) : enumiterator[l][1] # idx
         IN  Result(self, "ok", Some(Tail(enumiterator[n])), <<>>)
    ELSE Result(self, "IndexError", None, <<>>)

\* JDict.at
at(self, idx) == _at(self, idx, enumitems(self))

\* JDict.key_at: self.at(idx)[0]
key_at(self, idx) ==
    LET r == at(self, idx)
    IN  IF r.status = "ok" THEN Result(r.self, "ok", Some(r.val[1][1]), r.work) ELSE r

\* JDict.value_at: self.at(idx)[1]
value_at(self, idx) ==
    LET r == at(self, idx)
    IN  IF r.status = "ok" THEN Result(r.self, "ok", Some(r.val[1][2]), r.work) ELSE r

\* _pop without the test for an empty mapping
_pop_unchecked(self, key, work) ==
    IF key = None \/ ~dict_contains(self.data, key[1])
    THEN Result(self, "KeyError", None, work)
    ELSE LET value == dict_getitem(self.data, key[1])
             s == _invalidate([self EXCEPT !.data = dict_delitem(self.data, key[1])])
         IN  Result(s, "ok", Some(<<key[1], value>>), Append(work, "invalidate"))

\* JDict._pop; key is what firstkey or lastkey returned, None included
_pop(self, key, work) ==
    IF dict_len(self.data) = 0
    THEN Result(self, "IndexError", None, work)
    ELSE IF key = None \/ ~dict_contains(self.data, key[1])
    THEN Result(self, "KeyError", None, work)
    ELSE LET value == dict_getitem(self.data, key[1])
             s == _invalidate([self EXCEPT !.data = dict_delitem(self.data, key[1])])
         IN  Result(s, "ok", Some(<<key[1], value>>), Append(work, "invalidate"))

\* JDict.pop_first
pop_first(self) ==
    LET k == firstkey(self) IN _pop(k.self, k.val, k.work)

\* JDict.pop_last
pop_last(self) ==
    LET k == lastkey(self) IN _pop(k.self, k.val, k.work)

\* JDict.pop_first_key: self.pop_first()[0]
pop_first_key(self) ==
    LET r == pop_first(self)
    IN  IF r.status = "ok" THEN Result(r.self, "ok", Some(r.val[1][1]), r.work) ELSE r

\* JDict.pop_first_value: self.pop_first()[1]
pop_first_value(self) ==
    LET r == pop_first(self)
    IN  IF r.status = "ok" THEN Result(r.self, "ok", Some(r.val[1][2]), r.work) ELSE r

\* JDict.pop_last_key: self.pop_last()[0]
pop_last_key(self) ==
    LET r == pop_last(self)
    IN  IF r.status = "ok" THEN Result(r.self, "ok", Some(r.val[1][1]), r.work) ELSE r

\* JDict.pop_last_value: self.pop_last()[1]
pop_last_value(self) ==
    LET r == pop_last(self)
    IN  IF r.status = "ok" THEN Result(r.self, "ok", Some(r.val[1][2]), r.work) ELSE r

\* The object a lazy accessor returns.  range(n) keeps n.  enumerate(view) and
\* zip(range, view, view) hold iterators over the live mapping; such an
\* iterator keeps the number of entries the mapping had when it was made
\* (used) and fails, from then on, once the mapping has another number.  pos
\* is how far the range inside the zip has been consumed.
Iterable(kind, n) == [kind |-> kind, used |-> n, pos |-> 0, state |-> "fresh"]

NoIterable == Iterable("none", 0)

\* JDict.range as the object range(len(self))
range_object(self) ==
    Result(self, "ok", Iterable("range", dict_len(self.data)), <<>>)

\* JDict.enumkeys: enumerate(self.data.keys())
enumkeys(self) ==
    Result(self, "ok", Iterable("enumkeys", dict_len(self.data)), <<>>)

\* JDict.enumvalues: enumerate(self.data.values())
enumvalues(self) ==
    Result(self, "ok", Iterable("enumvalues", dict_len(self.data)), <<>>)

\* JDict.enumitems as the object zip(self.range, keys, values)
enumitems_object(self) ==
    Result(self, "ok", Iterable("enumitems", dict_len(self.data)), <<>>)

\* The tuples an iterator over the mapping d yields
Enumerated(kind, d) ==
    [i \in 1..Len(d) |->
        CASE kind = "enumkeys"   -> <<i - 1, d[i].k>>
          [] kind = "enumvalues" -> <<i - 1, d[i].v>>
          [] kind = "enumitems"  -> <<i - 1, d[i].k, d[i].v>>]

\* list(it) with iterators that take the mapping as it is when they are read
list_unguarded(it, d) ==
    CASE it.kind = "range" ->
            [status |-> "ok", val |-> [i \in 1..it.used |-> i - 1], it |-> it]
      [] it.kind \in {"enumkeys", "enumvalues"} ->
            IF it.state = "exhausted"
            THEN [status |-> "ok", val |-> <<>>, it |-> it]
            ELSE [status |-> "ok", val |-> Enumerated(it.kind, d),
                  it |-> [it EXCEPT !.state = "exhausted"]]
      [] it.kind = "enumitems" ->
            IF it.pos >= it.used
            THEN [status |-> "ok", val |-> <<>>, it |-> it]
            ELSE [status |-> "ok", val |-> Enumerated(it.kind, d),
                  it |-> [it EXCEPT !.pos = it.used, !.state = "exhausted"]]

\* list(it): the object iterated to its end over the mapping d as it is now.
\* A range yields its own indices, again on every iteration.  An enumerate
\* yields nothing once exhausted, raises RuntimeError when the mapping has not
\* the size it had when the iterator was made, or when it raised before, and
\* else yields the live entries.  A zip first takes an index from its range
\* and ends when there is none; then it reads the iterators over the mapping.
list(it, d) ==
    CASE it.kind = "range" ->
            [status |-> "ok", val |-> [i \in 1..it.used |-> i - 1], it |-> it]
      [] it.kind \in {"enumkeys", "enumvalues"} ->
            IF it.state = "exhausted"
            THEN [status |-> "ok", val |-> <<>>, it |-> it]
            ELSE IF it.state = "failed" \/ it.used # Len(d)
            THEN [status |-> "RuntimeError", val |-> <<>>,
                  it |-> [it EXCEPT !.state = "failed"]]
            ELSE [status |-> "ok", val |-> Enumerated(it.kind, d),
                  it |-> [it EXCEPT !.state = "exhausted"]]
      [] it.kind = "enumitems" ->
            IF it.pos >= it.used
            THEN [status |-> "ok", val |-> <<>>, it |-> it]
            ELSE IF it.state = "failed" \/ it.used # Len(d)
            THEN [status |-> "RuntimeError", val |-> <<>>,
                  it |-> [it EXCEPT !.pos = it.pos + 1, !.state = "failed"]]
            ELSE [status |-> "ok", val |-> Enumerated(it.kind, d),
                  it |-> [it EXCEPT !.pos = it.used, !.state = "exhausted"]]

\* The accessors (properties) and the methods that class JDict defines
property_names == {"keylist", "valuelist", "itemlist",
                   "firstitem", "firstkey", "firstvalue",
                   "lastitem", "lastkey", "lastvalue",
                   "anyitem", "anykey", "anyvalue",
                   "range", "enumkeys", "enumvalues", "enumitems",
                   "json", "series", "datacol", "datarow"}

method_names == {"at", "key_at", "value_at", "pop_first", "pop_last",
                 "pop_first_key", "pop_first_value", "pop_last_key",
                 "pop_last_value", "protected_keys"}

\* __getattr__ that lets the KeyError of the mapping through
__getattr__keyerror(self, key) ==
    IF dict_contains(self.data, key)
    THEN Result(self, "ok", Some(dict_getitem(self.data, key)), <<>>)
    ELSE Result(self, "KeyError", None, <<>>)

\* JDict.__getattr__: self.data[key], AttributeError on KeyError
__getattr__(self, key) ==
    IF dict_contains(self.data, key)
    THEN Result(self, "ok", Some(dict_getitem(self.data, key)), <<>>)
    ELSE Result(self, "AttributeError", None, <<>>)

\* The read jd.key.  Python calls __getattr__ only when the normal lookup
\* finds nothing: a housekeeping attribute of the object, an accessor or a
\* method of the class is found first.  Of the accessors the read of keylist
\* is evaluated; any other accessor or method reads as the token of its name.
getattr(self, key) ==
    IF key = "keylist" THEN keylist(self)
    ELSE IF key \in property_names \cup method_names
    THEN Result(self, "ok", Some(<<"attribute", key>>), <<>>)
    ELSE IF key \in protected_keys THEN Result(self, "ok", Some(self[key]), <<>>)
    ELSE __getattr__(self, key)

----------------------------------------------------------------------------
(* The state: the object jd, the last call made on it with its outcome      *)
(* (ret), per view, the number of times it was recomputed from the          *)
(* mapping since the caches were last invalidated (recomputes), and the     *)
(* lazy object that the caller obtained last and still holds (held).        *)

NoRecomputes == [keys |-> 0, values |-> 0, items |-> 0]

Min(a, b) == IF a < b THEN a ELSE b

RECURSIVE Counted(_, _)
Counted(rc, work) ==
    IF work = <<>> THEN rc
    ELSE IF Head(work) = "invalidate" THEN Counted(NoRecomputes, Tail(work))
    ELSE Counted([rc EXCEPT ![Head(work)] = Min(@ + 1, MaxCount)], Tail(work))

\* One call: the object and the outcome it leaves
Call(op, arg, r) ==
    /\ jd' = r.self
    /\ ret' = [op |-> op, arg |-> arg, status |-> r.status, val |-> r.val]
    /\ recomputes' = Counted(recomputes, r.work)
    /\ held' = held

\* A write of a new key is made only while the mapping is below MaxLen.
Room(key) == dict_contains(jd.data, key) \/ dict_len(jd.data) < MaxLen

\* JDict(data), data one of the mappings over Keys
Init ==
    /\ jd \in {__init__(d) : d \in Dicts(Keys, MaxLen)}
    /\ ret = [op |-> "__init__", arg |-> <<>>, status |-> "ok", val |-> None]
    /\ recomputes = NoRecomputes
    /\ held = NoIterable

\* jd[key] = item
SetItem ==
    \E key \in Keys, item \in Values :
        /\ Room(key)
        /\ Call("__setitem__", <<key, item>>, __setitem__(jd, key, item))

\* del jd[key]
DelItem ==
    \E key \in Keys :
        \E r \in {__delitem__(jd, key)} : Call("__delitem__", <<key>>, r)

\* jd.key = value, key not a housekeeping name
SetAttr ==
    \E key \in Keys, value \in Values :
        /\ Room(key)
        /\ Call("__setattr__", <<key, value>>, __setattr__(jd, key, value))

\* The values written to the housekeeping attributes
AttrInputs(key) ==
    CASE key = "data"    -> {<<>>, <<Entry("a", 2)>>, <<Entry("data", 1)>>}
      [] key = "_keys"   -> {<<>>, <<"a">>}
      [] key = "_values" -> {<<>>, <<1>>}
      [] key = "_items"  -> {<<>>, <<<<"a", 1>>>>}
      [] OTHER           -> BOOLEAN

\* jd.key = value, key a housekeeping name
SetAttrProtected ==
    \E key \in protected_keys :
        \E value \in AttrInputs(key) :
            \E r \in {__setattr__(jd, key, value)} :
                Call("__setattr__", <<key, value>>, r)

ReadKeylist == \E r \in {keylist(jd)} : Call("keylist", <<>>, r)
ReadValuelist == \E r \in {valuelist(jd)} : Call("valuelist", <<>>, r)
ReadItemlist == \E r \in {itemlist(jd)} : Call("itemlist", <<>>, r)

ReadLastitem == \E r \in {lastitem(jd)} : Call("lastitem", <<>>, r)
ReadLastkey == \E r \in {lastkey(jd)} : Call("lastkey", <<>>, r)
ReadLastvalue == \E r \in {lastvalue(jd)} : Call("lastvalue", <<>>, r)

ReadFirstitem == \E r \in {firstitem(jd)} : Call("firstitem", <<>>, r)
ReadFirstkey == \E r \in {firstkey(jd)} : Call("firstkey", <<>>, r)
ReadFirstvalue == \E r \in {firstvalue(jd)} : Call("firstvalue", <<>>, r)

ReadAnyitem == \E r \in {anyitem(jd)} : Call("anyitem", <<>>, r)
ReadAnykey == \E r \in {anykey(jd)} : Call("anykey", <<>>, r)
ReadAnyvalue == \E r \in {anyvalue(jd)} : Call("anyvalue", <<>>, r)

At == \E idx \in Indices : \E r \in {at(jd, idx)} : Call("at", <<idx>>, r)
KeyAt ==
    \E idx \in Indices : \E r \in {key_at(jd, idx)} : Call("key_at", <<idx>>, r)
ValueAt ==
    \E idx \in Indices : \E r \in {value_at(jd, idx)} : Call("value_at", <<idx>>, r)

PopFirst == \E r \in {pop_first(jd)} : Call("pop_first", <<>>, r)
PopLast == \E r \in {pop_last(jd)} : Call("pop_last", <<>>, r)
PopFirstKey == \E r \in {pop_first_key(jd)} : Call("pop_first_key", <<>>, r)
PopFirstValue == \E r \in {pop_first_value(jd)} : Call("pop_first_value", <<>>, r)
PopLastKey == \E r \in {pop_last_key(jd)} : Call("pop_last_key", <<>>, r)
PopLastValue == \E r \in {pop_last_value(jd)} : Call("pop_last_value", <<>>, r)

\* One read of a lazy accessor: the caller keeps the object it returns
Obtain(op, r) ==
    /\ jd' = r.self
    /\ ret' = [op |-> op, arg |-> <<>>, status |-> r.status, val |-> r.val]
    /\ recomputes' = Counted(recomputes, r.work)
    /\ held' = r.val

ReadRange == \E r \in {range_object(jd)} : Obtain("range", r)
ReadEnumkeys == \E r \in {enumkeys(jd)} : Obtain("enumkeys", r)
ReadEnumvalues == \E r \in {enumvalues(jd)} : Obtain("enumvalues", r)
ReadEnumitems == \E r \in {enumitems_object(jd)} : Obtain("enumitems", r)

\* list(held): the caller iterates the object it holds
Iterate ==
    /\ held.kind # "none"
    /\ \E r \in {list(held, jd.data)} :
          /\ ret' = [op |-> "list", arg |-> <<held.kind>>,
                     status |-> r.status, val |-> r.val]
          /\ held' = r.it
    /\ UNCHANGED <<jd, recomputes>>

\* Names of a housekeeping attribute, an accessor and a method, as keys
AttributeKeys == {"data", "keylist", "pop_first"}

\* jd[key] = item, key the name of an attribute
SetItemAttribute ==
    \E key \in AttributeKeys, item \in Values :
        /\ Room(key)
        /\ Call("__setitem__", <<key, item>>, __setitem__(jd, key, item))

\* jd.key
GetAttr ==
    \E key \in Keys \cup AttributeKeys :
        \E r \in {getattr(jd, key)} : Call("getattr", <<key>>, r)

\* The writes of the mapping interface, the three views and the pops
Next ==
    \/ SetItem \/ DelItem \/ SetAttr
    \/ ReadKeylist \/ ReadValuelist \/ ReadItemlist
    \/ PopFirst \/ PopLast

Spec == Init /\ [][Next]_vars

\* The writes, the key view and the six pops
NextPop ==
    \/ SetItem \/ DelItem \/ SetAttr
    \/ ReadKeylist
    \/ PopFirst \/ PopLast
    \/ PopFirstKey \/ PopFirstValue \/ PopLastKey \/ PopLastValue

SpecPop == Init /\ [][NextPop]_vars

\* The writes and the accessors of the last entry
NextLast ==
    \/ SetItem \/ DelItem \/ SetAttr
    \/ ReadLastitem \/ ReadLastkey \/ ReadLastvalue

SpecLast == Init /\ [][NextLast]_vars

\* The writes, the item view and the positional accessors
NextAt ==
    \/ SetItem \/ DelItem \/ SetAttr
    \/ ReadItemlist
    \/ At \/ KeyAt \/ ValueAt

SpecAt == Init /\ [][NextAt]_vars

\* The field writes, to mapping keys and to housekeeping attributes, and the
\* key view
NextAttr ==
    \/ SetAttr
    \/ ReadKeylist
    \/ SetAttrProtected

SpecAttr == Init /\ [][NextAttr]_vars

\* The writes, also to keys that are names of attributes, and the field read
NextGet ==
    \/ SetItem \/ DelItem \/ SetAttr
    \/ SetItemAttribute
    \/ GetAttr

SpecGet == Init /\ [][NextGet]_vars

\* The writes, the key view and the accessors of the first entry
NextFirst ==
    \/ SetItem \/ DelItem \/ SetAttr
    \/ ReadKeylist
    \/ ReadFirstitem \/ ReadFirstkey \/ ReadFirstvalue
    \/ ReadAnyitem \/ ReadAnykey \/ ReadAnyvalue

SpecFirst == Init /\ [][NextFirst]_vars

\* The writes, the lazy accessors and the iteration of the object obtained
NextEnum ==
    \/ SetItem \/ DelItem \/ SetAttr
    \/ ReadRange \/ ReadEnumkeys \/ ReadEnumvalues \/ ReadEnumitems
    \/ Iterate

SpecEnum == Init /\ [][NextEnum]_vars

\* Writes that invalidate (pop_first) and that do not (del), and the reads
NextRead ==
    \/ DelItem \/ PopFirst
    \/ ReadKeylist \/ ReadValuelist \/ ReadItemlist
    \/ ReadFirstitem \/ ReadFirstkey \/ ReadFirstvalue
    \/ ReadAnyitem \/ ReadAnykey \/ ReadAnyvalue
    \/ At \/ KeyAt \/ ValueAt
    \/ ReadRange \/ ReadEnumkeys \/ ReadEnumvalues \/ ReadEnumitems

SpecRead == Init /\ [][NextRead]_vars

----------------------------------------------------------------------------
(* Properties *)

Flags(self) == <<self._keysvalid, self._valuesvalid, self._itemsvalid>>

AllInvalid(self) == Flags(self) = <<FALSE, FALSE, FALSE>>

HasKey(d, key) == key \in {d[i].k : i \in 1..Len(d)}

\* C1: whenever a validity flag is true, the cached sequence equals the
\* recomputation from the store, so the next read of keylist, valuelist and
\* itemlist returns what iterating the store yields, in order.
C1_CachesMatchStore ==
    /\ jd._keysvalid => jd._keys = dict_keys(jd.data)
    /\ jd._valuesvalid => jd._values = dict_values(jd.data)
    /\ jd._itemsvalid => jd._items = dict_items(jd.data)

\* C2: a field write jd.k = v to a name that is not reserved sets store[k] = v,
\* k last when it is new and in its old position when it exists, the other
\* entries untouched, and leaves the three validity flags false.
C2_FieldWriteStoresAndInvalidates ==
    [][(ret'.op = "__setattr__" /\ ret'.arg[1] \notin protected_keys) =>
        LET k == ret'.arg[1]
            v == ret'.arg[2]
            d == jd.data
            e == jd'.data
        IN  /\ dict_keys(e) = IF HasKey(d, k) THEN dict_keys(d)
                                              ELSE dict_keys(d) \o <<k>>
            /\ \A i \in 1..Len(e) :
                   e[i].v = IF e[i].k = k THEN v ELSE d[i].v
            /\ AllInvalid(jd')
            /\ ret'.status = "ok"]_vars

\* C2 witness: a field write changed the value of the first of two keys after
\* the key view had been read.
C2_Witness ==
    /\ ret.op = "__setattr__"
    /\ ret.arg = <<"a", 2>>
    /\ jd.data = <<Entry("a", 2), Entry("b", 1)>>
    /\ jd._keys = <<"a", "b">>
    /\ AllInvalid(jd)

FlagNames == {"_keysvalid", "_valuesvalid", "_itemsvalid"}

\* The flags other than the one named keep their values over the step.
FlagsKept(name) == \A f \in FlagNames \ {name} : jd'[f] = jd[f]

ReservedWrite == ret'.op = "__setattr__" /\ ret'.arg[1] \in protected_keys

\* C3 as stated: after a field write to a reserved name the store has no
\* reserved name among its keys that it did not have before, and every
\* validity flag other than one written directly keeps its value.
C3_ReservedWriteAddsNoKey ==
    [][ReservedWrite =>
        /\ \A n \in protected_keys : HasKey(jd'.data, n) => HasKey(jd.data, n)
        /\ FlagsKept(ret'.arg[1])]_vars

\* C3 amended: a field write to a reserved name is not redirected into the
\* store: to a name other than data it leaves the store as it was, to data it
\* makes the assigned mapping the store as it is; and every validity flag
\* other than one written directly keeps its value.
C3_ReservedWriteNotRedirected ==
    [][ReservedWrite =>
        /\ jd'.data = IF ret'.arg[1] = "data" THEN ret'.arg[2] ELSE jd.data
        /\ FlagsKept(ret'.arg[1])
        /\ ret'.status = "ok"]_vars

\* C3 witness: the cache slot _keys was written by hand while the key view
\* was valid and the store had two entries.
C3_Witness ==
    /\ ret.op = "__setattr__"
    /\ ret.arg[1] = "_keys"
    /\ jd._keys = <<"a">>
    /\ jd._keysvalid
    /\ dict_keys(jd.data) = <<"b", "a">>

ViewOps == {"keylist", "valuelist", "itemlist"}

\* A step that wrote to the store: an assignment, or a deletion or pop that
\* did not fail.
WriteStep ==
    \/ ret'.op \in {"__setitem__", "__setattr__"}
    \/ ret'.op \notin ViewOps /\ ret'.status = "ok"

\* C4: between two writes, a view that is valid stays valid and keeps its
\* cached sequence, a read of a view returns the cached sequence and leaves it
\* valid (so repeated reads return the identical sequence), and each view is
\* recomputed from the store at most once between two invalidations.
C4_OneRecomputationPerWindow ==
    [][/\ \A v \in DOMAIN recomputes' : recomputes'[v] <= 1
       /\ ~WriteStep =>
            /\ jd._keysvalid => jd'._keysvalid /\ jd'._keys = jd._keys
            /\ jd._valuesvalid => jd'._valuesvalid /\ jd'._values = jd._values
            /\ jd._itemsvalid => jd'._itemsvalid /\ jd'._items = jd._items
       /\ ret'.op = "keylist" => jd'._keysvalid /\ ret'.val = jd'._keys
       /\ ret'.op = "valuelist" => jd'._valuesvalid /\ ret'.val = jd'._values
       /\ ret'.op = "itemlist" => jd'._itemsvalid /\ ret'.val = jd'._items]_vars

\* C4 witness: the key view was read when all three views had been recomputed
\* once since the last invalidation.
C4_Witness ==
    /\ ret.op = "keylist"
    /\ ret.val = <<"a", "b">>
    /\ recomputes = [keys |-> 1, values |-> 1, items |-> 1]
    /\ Flags(jd) = <<TRUE, TRUE, TRUE>>

\* C5: pop_last on a store with at least one entry removes and returns the
\* pair at the final position of the store, keeps the order of the others and
\* leaves the three validity flags false.
C5_PopLastTakesLast ==
    [][(ret'.op = "pop_last" /\ Len(jd.data) > 0) =>
        LET d == jd.data
            n == Len(d)
        IN  /\ ret'.status = "ok"
            /\ ret'.val = Some(<<d[n].k, d[n].v>>)
            /\ jd'.data = SubSeq(d, 1, n - 1)
            /\ AllInvalid(jd')]_vars

\* C6: pop_first on a store with at least one entry removes and returns the
\* pair at position 0; the store is then the previous one without its first
\* entry, the three validity flags are false, and a keylist read then gives
\* the previous key order without its first element.
C6_PopFirstTakesFirst ==
    [][(ret'.op = "pop_first" /\ Len(jd.data) > 0) =>
        LET d == jd.data
        IN  /\ ret'.status = "ok"
            /\ ret'.val = Some(<<d[1].k, d[1].v>>)
            /\ jd'.data = Tail(d)
            /\ AllInvalid(jd')
            /\ keylist(jd').val = Tail(dict_keys(d))]_vars

\* C6 witness: pop_first returned the entry of "a" and left that of "b", which
\* a subscript assignment had added after the key view was read.
C6_Witness ==
    /\ ret.op = "pop_first"
    /\ ret.val = Some(<<"a", 1>>)
    /\ jd.data = <<Entry("b", 2)>>
    /\ jd._keys = <<"a">>
    /\ AllInvalid(jd)

PopOps == {"pop_first", "pop_last", "pop_first_key", "pop_first_value",
           "pop_last_key", "pop_last_value"}

\* C7: each of the six pops fails with IndexError on a store with no entry and
\* leaves the store unchanged, and none fails with IndexError on a store with
\* at least one entry.
C7_PopFailsIffEmpty ==
    [][ret'.op \in PopOps =>
        /\ Len(jd.data) = 0 => ret'.status = "IndexError" /\ jd'.data = jd.data
        /\ Len(jd.data) > 0 => ret'.status # "IndexError"]_vars

\* C7 witness: pop_last_value failed with IndexError on an empty store whose
\* valid key view still held a key.
C7_Witness ==
    /\ ret.op = "pop_last_value"
    /\ ret.status = "IndexError"
    /\ jd.data = <<>>
    /\ jd._keysvalid
    /\ jd._keys = <<"a">>

\* C8: lastitem, lastkey and lastvalue return the pair, key and value at the
\* final position of the store, and None when the store is empty.
C8_LastAccessorsReadStore ==
    LET d == jd.data
        n == Len(d)
    IN  /\ ret.op \in {"lastitem", "lastkey", "lastvalue"} => ret.status = "ok"
        /\ ret.op = "lastitem" =>
             ret.val = IF n = 0 THEN None ELSE Some(<<d[n].k, d[n].v>>)
        /\ ret.op = "lastkey" => ret.val = IF n = 0 THEN None ELSE Some(d[n].k)
        /\ ret.op = "lastvalue" => ret.val = IF n = 0 THEN None ELSE Some(d[n].v)

AtOps == {"at", "key_at", "value_at"}

InRange(idx, d) == idx \in 0..(Len(d) - 1)

\* C9: for an index i in [0, length), at(i) equals the i-th element of
\* itemlist read in the same state, key_at(i) its key and value_at(i) its
\* value.
C9_AtMatchesItemlist ==
    (ret.op \in AtOps /\ InRange(ret.arg[1], jd.data)) =>
        LET il == itemlist(jd).val
            i == ret.arg[1] + 1
        IN  /\ ret.status = "ok"
            /\ i <= Len(il)
            /\ ret.op = "at" => ret.val = Some(il[i])
            /\ ret.op = "key_at" => ret.val = Some(il[i][1])
            /\ ret.op = "value_at" => ret.val = Some(il[i][2])

\* C10: at, key_at and value_at fail with IndexError for every index outside
\* [0, length), -1 and length among them, and leave the store unchanged.
C10_AtOutOfRangeFails ==
    [][(ret'.op \in AtOps /\ ~InRange(ret'.arg[1], jd.data)) =>
        /\ ret'.status = "IndexError"
        /\ jd'.data = jd.data]_vars

\* C10 witness: at(-1) failed with IndexError on a store of two entries.
C10_Witness ==
    /\ ret.op = "at"
    /\ ret.arg = <<0 - 1>>
    /\ ret.status = "IndexError"
    /\ Len(jd.data) = 2

\* C11 as stated: for every name k the read jd.k returns store[k] when k is a
\* key of the store and fails with AttributeError when it is not.
C11_FieldReadIsKeyLookup ==
    ret.op = "getattr" =>
        LET k == ret.arg[1]
        IN  IF HasKey(jd.data, k)
            THEN ret.status = "ok" /\ ret.val = Some(dict_getitem(jd.data, k))
            ELSE ret.status = "AttributeError"

\* The names the normal attribute lookup finds
FoundByLookup == protected_keys \cup property_names \cup method_names

\* C11 amended: for every name k that is not a housekeeping field, an accessor
\* or a method of the container, the read jd.k returns store[k] when k is a
\* key of the store and fails with AttributeError when it is not, and changes
\* nothing.
C11_FieldReadOfOtherNames ==
    [][(ret'.op = "getattr" /\ ret'.arg[1] \notin FoundByLookup) =>
        LET k == ret'.arg[1]
        IN  /\ IF HasKey(jd.data, k)
               THEN /\ ret'.status = "ok"
                    /\ ret'.val = Some(jd.data[dict_index(jd.data, k)].v)
               ELSE ret'.status = "AttributeError"
            /\ jd' = jd]_vars

\* C11 witness: jd.b failed with AttributeError on a store that holds "a" and
\* the key "data".
C11_Witness ==
    /\ ret.op = "getattr"
    /\ ret.arg = <<"b">>
    /\ ret.status = "AttributeError"
    /\ dict_keys(jd.data) = <<"data", "a">>

----------------------------------------------------------------------------
\* C12: in every state firstitem, firstkey and firstvalue return the pair,
\* the key and the value of the entry at position 0 of the store, and None
\* when the store is empty; anyitem, anykey and anyvalue return exactly what
\* the first accessor of the same kind returns.
FirstOps == {"firstitem", "firstkey", "firstvalue"}

AnyOps == {"anyitem", "anykey", "anyvalue"}

Position0(op, d) ==
    IF Len(d) = 0 THEN None
    ELSE CASE op \in {"firstitem", "anyitem"}   -> Some(<<d[1].k, d[1].v>>)
           [] op \in {"firstkey", "anykey"}     -> Some(d[1].k)
           [] op \in {"firstvalue", "anyvalue"} -> Some(d[1].v)

C12_FirstReadsPosition0 ==
    /\ ret.op \in FirstOps \cup AnyOps =>
           ret.status = "ok" /\ ret.val = Position0(ret.op, jd.data)
    /\ ret.op = "anyitem" => ret.val = firstitem(jd).val
    /\ ret.op = "anykey" => ret.val = firstkey(jd).val
    /\ ret.op = "anyvalue" => ret.val = firstvalue(jd).val

\* C12 witness: anyvalue returned 2, the value at position 0 of a store of two
\* entries, while the cached key view holds another first key.
C12_Witness ==
    /\ ret.op = "anyvalue" /\ ret.val = Some(2)
    /\ jd.data = <<Entry("b", 2), Entry("a", 1)>>
    /\ jd._keysvalid /\ jd._keys = <<"a">>

----------------------------------------------------------------------------
\* The sequence of the given kind for the mapping d
Sequence(kind, d) ==
    IF kind = "range" THEN [i \in 1..Len(d) |-> i - 1] ELSE Enumerated(kind, d)

FirstIteration == ret'.op = "list" /\ held.state = "fresh" /\ held.pos = 0

\* C13 as stated: the sequence of range, enumkeys, enumvalues and enumitems
\* reflects the store at the time it is iterated, not at the time it was
\* obtained: iterating an object obtained earlier yields the indices
\* 0..length-1 (with the keys and values) of the store as it is now.
C13_IterationReflectsStore ==
    [][FirstIteration =>
          /\ ret'.status = "ok"
          /\ ret'.val = Sequence(held.kind, jd.data)]_vars

\* C13 amended: the iteration reflects the order and the values of the store
\* as it is when iterated provided the store has the number of entries it had
\* when the object was obtained.  After a change of that number range still
\* yields the indices of the length at the time it was obtained, enumkeys and
\* enumvalues fail with RuntimeError, and enumitems fails with RuntimeError
\* or, obtained from an empty store, yields nothing.
C13_IterationReflectsStoreOfSameSize ==
    [][FirstIteration =>
          IF held.used = Len(jd.data)
          THEN /\ ret'.status = "ok"
               /\ ret'.val = Sequence(held.kind, jd.data)
          ELSE CASE held.kind = "range" ->
                      /\ ret'.status = "ok"
                      /\ ret'.val = [i \in 1..held.used |-> i - 1]
                 [] held.kind \in {"enumkeys", "enumvalues"} ->
                      ret'.status = "RuntimeError"
                 [] held.kind = "enumitems" ->
                      IF held.used = 0
                      THEN ret'.status = "ok" /\ ret'.val = <<>>
                      ELSE ret'.status = "RuntimeError"]_vars

\* C13 witness: enumkeys was obtained from a store of one entry, an entry was
\* added, and the iteration failed.
C13_Witness ==
    /\ ret.op = "list" /\ ret.arg = <<"enumkeys">> /\ ret.status = "RuntimeError"
    /\ held.used = 1 /\ Len(jd.data) = 2

----------------------------------------------------------------------------
\* zip(ks, vs) as a list
Zip(ks, vs) == [i \in 1..Min(Len(ks), Len(vs)) |-> <<ks[i], vs[i]>>]

\* C14: in every reachable state the three views read back to back, with no
\* mutation in between, are consistent: itemlist is the pairwise zip of
\* keylist and valuelist, and lastitem is the pair of lastkey and lastvalue
\* (all three None on an empty store).
C14_ViewsConsistent ==
    LET k == keylist(jd)
        v == valuelist(k.self)
        i == itemlist(v.self)
        lk == lastkey(i.self)
        lv == lastvalue(lk.self)
        li == lastitem(lv.self)
    IN  /\ i.val = Zip(k.val, v.val)
        /\ Len(k.val) = Len(v.val)
        /\ IF lk.val = None \/ lv.val = None
           THEN lk.val = None /\ lv.val = None /\ li.val = None
           ELSE li.val = Some(<<lk.val[1], lv.val[1]>>)

----------------------------------------------------------------------------
\* The outcomes of n successive calls of op, pop_first or pop_last, on self
RECURSIVE Drained(_, _, _)
Drained(op, self, n) ==
    IF n = 0 THEN <<>>
    ELSE LET r == IF op = "pop_first" THEN pop_first(self) ELSE pop_last(self)
         IN  <<r>> \o Drained(op, r.self, n - 1)

Reverse(seq) == [i \in 1..Len(seq) |-> seq[Len(seq) + 1 - i]]

\* The pops of op on self return the pairs of items one by one, each leaving
\* one entry less, and the pop after the last of them fails with IndexError
DrainsInOrder(op, self, items) ==
    LET n == Len(items)
        rs == Drained(op, self, n + 1)
    IN  /\ \A i \in 1..n :
              /\ rs[i].status = "ok"
              /\ rs[i].val = Some(items[i])
              /\ Len(rs[i].self.data) = n - i
        /\ rs[n + 1].status = "IndexError"

\* C15: from every reachable state with n entries, n successive pop_first
\* calls return the entries in insertion order and n successive pop_last
\* calls in reverse insertion order, each pop leaving one entry less, and the
\* pop after them fails with IndexError; a field write to an existing key
\* before draining keeps the position of the key in that order.
C15_DrainingOrder ==
    LET items == dict_items(jd.data)
    IN  /\ DrainsInOrder("pop_first", jd, items)
        /\ DrainsInOrder("pop_last", jd, Reverse(items))
        /\ \A key \in Keys, value \in Values :
              HasKey(jd.data, key) =>
                 LET s == __setattr__(jd, key, value).self
                     after == dict_items(s.data)
                 IN  /\ dict_keys(s.data) = dict_keys(jd.data)
                     /\ DrainsInOrder("pop_first", s, after)
                     /\ DrainsInOrder("pop_last", s, Reverse(after))

----------------------------------------------------------------------------
LazyOps == {"range", "enumkeys", "enumvalues", "enumitems"}

\* The reads that are to change nothing
PureReadOps == FirstOps \cup AnyOps \cup AtOps \cup LazyOps

\* The cache and the flag that a view read may write
Slot(op) ==
    CASE op = "keylist"   -> {"_keys", "_keysvalid"}
      [] op = "valuelist" -> {"_values", "_valuesvalid"}
      [] op = "itemlist"  -> {"_items", "_itemsvalid"}

\* C16: a read of keylist, valuelist or itemlist changes at most its own
\* cache and flag; firstitem/firstkey/firstvalue, the any accessors,
\* at/key_at/value_at, range and the enum accessors change nothing of the
\* object; no read sets a validity flag to false or changes the store.
C16_ReadsChangeOwnSlotOnly ==
    [][/\ ret'.op \in ViewOps =>
            \A f \in (DOMAIN jd) \ Slot(ret'.op) : jd'[f] = jd[f]
       /\ ret'.op \in PureReadOps => jd' = jd
       /\ ret'.op \in ViewOps \cup PureReadOps =>
            /\ jd'.data = jd.data
            /\ \A f \in FlagNames : jd[f] => jd'[f]]_vars

\* C16 witness: a keylist read recomputed the key view of the store while the
\* value view, cached before an entry was deleted, stayed as it was and
\* valid, and the item view stayed invalid.
C16_Witness ==
    /\ ret.op = "keylist" /\ ret.val = <<"b">>
    /\ jd._keysvalid /\ jd._keys = <<"b">>
    /\ jd._valuesvalid /\ jd._values = <<1, 2>>
    /\ ~jd._itemsvalid

====
